---- MODULE Spec2Model ----
(***************************************************************************)
(* Model of clif/pybind11/lambdas.py: the decision whether a function      *)
(* needs a C++ lambda (needs_lambda) and the generator that emits the      *)
(* lambda's lines (generate_lambda).                                        *)
(*                                                                         *)
(* Python strings are sequences of one-character strings, so that          *)
(* str.split, str.join, str.rstrip and f-string formatting are modelled by *)
(* what they do to the characters.  A Python call either returns a value   *)
(* or raises: its outcome is a record [exc, val].                          *)
(***************************************************************************)
EXTENDS Naturals, Sequences, FiniteSets

VARIABLES
    func_decl,    \* the ast_pb2.FuncDecl handed to needs_lambda / generate_lambda
    class_decl,   \* Optional[ast_pb2.ClassDecl]: <<>> is None, <<c>> is c
    pc,           \* position of the running function / generator
    idx,          \* loop index i of "for i, r in enumerate(func_decl.returns)"
    out,          \* the lines generate_lambda has yielded so far
    ret_branch,   \* the arm of the return if/elif/else that has run
    needs,        \* outcome of needs_lambda(func_decl)
    cpp_name,     \* the argument of a direct _extract_bare_type call
    bare          \* outcome of _extract_bare_type(cpp_name)

vars == <<func_decl, class_decl, pc, idx, out, ret_branch, needs, cpp_name, bare>>

----------------------------------------------------------------------------
(* Bounds of the model. *)

MaxPieces == 5     \* pieces concatenated into a type string (bare-type runs)
MaxParams == 2     \* len(func_decl.params)
MaxReturns == 3    \* len(func_decl.returns)

----------------------------------------------------------------------------
(* Python values. *)

Return(v) == [exc |-> "None", val |-> v]
RaiseIndexError == [exc |-> "IndexError", val |-> <<>>]
NotCalled == [exc |-> "NotCalled", val |-> <<>>]

Last(s) == s[Len(s)]
Front(s) == SubSeq(s, 1, Len(s) - 1)

RECURSIVE Concat(_)
Concat(ss) == IF ss = <<>> THEN <<>> ELSE Head(ss) \o Concat(Tail(ss))

\* s.split(c) for a one-character separator c: the pieces between the
\* occurrences of c, in order; always at least one piece.
SplitAt(s, c) ==
    LET n == Len(s)
        cuts == {k \in 1..n : s[k] = c}
        m == Cardinality(cuts)
        cut(j) == IF j = 0 THEN 0
                  ELSE IF j = m + 1 THEN n + 1
                  ELSE CHOOSE k \in cuts : Cardinality({x \in cuts : x < k}) = j - 1
    IN  [j \in 1..(m + 1) |-> SubSeq(s, cut(j - 1) + 1, cut(j) - 1)]

\* cpp_name.split(' ')
split(s) == SplitAt(s, " ")

\* sep.join(t)
RECURSIVE join(_, _)
join(sep, t) ==
    IF t = <<>> THEN <<>>
    ELSE IF Len(t) = 1 THEN t[1]
    ELSE t[1] \o sep \o join(sep, Tail(t))

\* s.rstrip('#')
RECURSIVE rstrip_hash(_)
rstrip_hash(s) ==
    IF s # <<>> /\ Last(s) = "#" THEN rstrip_hash(Front(s)) ELSE s

Digits == <<"0", "1", "2", "3", "4", "5", "6", "7", "8", "9">>

\* f'{i}' of a non-negative int
RECURSIVE str(_)
str(n) == IF n < 10 THEN <<Digits[n + 1]>>
          ELSE str(n \div 10) \o <<Digits[(n % 10) + 1]>>

----------------------------------------------------------------------------
(* String literals of the source. *)

S_const == <<"c", "o", "n", "s", "t">>
S_self_postproc == <<"-", ">", "s", "e", "l", "f">>
S_bytes == <<"b", "y", "t", "e", "s">>
S_ret == <<"r", "e", "t">>
S_amp_ret == <<"&", "r", "e", "t">>
S_comma == <<",", " ">>
S_space == <<" ">>
S_amp_self == <<" ", "&", "s", "e", "l", "f">>
S_self_dot == <<"s", "e", "l", "f", ".">>
S_py_bytes == <<"p", "y", ":", ":", "b", "y", "t", "e", "s", "(">>
S_braces == <<"{", "}", ";">>
S_ret0_assign == <<"r", "e", "t", "0", " ", "=", " ">>
S_return_self == <<"r", "e", "t", "u", "r", "n", " ", "s", "e", "l", "f", ";">>
S_return_tuple ==
    <<"r", "e", "t", "u", "r", "n", " ", "s", "t", "d", ":", ":",
      "m", "a", "k", "e", "_", "t", "u", "p", "l", "e", "(">>
S_return == <<"r", "e", "t", "u", "r", "n", " ">>
S_open_name == <<"(", "\"">>
S_open_lambda == <<"\"", ",", " ", "[", "]", "(">>
S_open_body == <<")", " ", "{">>
S_close_body == <<"}", ",", " ">>

----------------------------------------------------------------------------
(* _extract_bare_type *)

\* t = cpp_name.split(' '); t[0] exists since split yields >= 1 piece;
\* t[-1] of the empty list raises IndexError.
_extract_bare_type(name) ==
    LET t0 == split(name)
        t1 == IF t0[1] = S_const THEN Tail(t0) ELSE t0
    IN  IF t1 = <<>> THEN RaiseIndexError
        ELSE LET t2 == IF Last(t1) \in {<<"&">>, <<"*">>} THEN Front(t1) ELSE t1
             IN  Return(join(S_space, t2))

----------------------------------------------------------------------------
(* needs_lambda and its helpers *)

\* utils.is_usable_cpp_exact_type(param.cpp_exact_type): the verdict of the
\* helper on this parameter's exact type travels with the parameter.
is_usable_cpp_exact_type(param) == param.usable_exact

\* The mutant: ">= 1" instead of ">= 2".
AnyReturn_func_has_pointer_params(fd) ==
    LET num_returns == Len(fd.returns)
    IN  num_returns >= 1 \/ (num_returns = 1 /\ fd.cpp_void_return)

_func_has_pointer_params(fd) ==
    LET num_returns == Len(fd.returns)
    IN  num_returns >= 2 \/ (num_returns = 1 /\ fd.cpp_void_return)

_has_bytes_return(fd) ==
    \E k \in 1..Len(fd.returns) : fd.returns[k].type.lang_type = S_bytes

\* The outcome is Return(TRUE), Return(FALSE) or the IndexError that either
\* _extract_bare_type call raised (both calls are evaluated, exact type
\* first, before the conversion flags are looked at).
_func_needs_implicit_conversion(fd) ==
    IF Len(fd.params) = 1
    THEN LET param == fd.params[1]
         IN  IF ~is_usable_cpp_exact_type(param) THEN Return(FALSE)
             ELSE LET a == _extract_bare_type(param.cpp_exact_type)
                      b == _extract_bare_type(param.type.cpp_type)
                  IN  IF a.exc # "None" THEN RaiseIndexError
                      ELSE IF b.exc # "None" THEN RaiseIndexError
                      ELSE IF /\ a.val # b.val
                              /\ param.type.cpp_toptr_conversion
                              /\ param.type.cpp_touniqptr_conversion
                           THEN Return(TRUE)
                           ELSE Return(FALSE)
    ELSE Return(FALSE)

\* "or" evaluates left to right and stops at the first true operand.
needs_lambda(fd) ==
    IF fd.postproc = S_self_postproc THEN Return(TRUE)
    ELSE LET c == _func_needs_implicit_conversion(fd)
         IN  IF c.exc # "None" THEN c
             ELSE IF c.val THEN Return(TRUE)
             ELSE Return(_func_has_pointer_params(fd) \/ _has_bytes_return(fd))

----------------------------------------------------------------------------
(* Collaborators outside lambdas.py *)

\* utils.I, one level of indentation
I == <<" ", " ">>

\* function_lib.generate_def(func_decl): the registration keyword
generate_def(fd) == <<"d", "e", "f">>

\* function_lib.generate_function_suffixes(func_decl): text passed through
generate_function_suffixes(fd) ==
    <<"p", "y", ":", ":", "a", "r", "g", "(", "\"", "x", "\"", ")", ")", ";">>

----------------------------------------------------------------------------
(* The pure helpers of generate_lambda *)

_generate_lambda_params_with_types(fd, cd) ==
    LET params_list ==
            [k \in 1..Len(fd.params) |->
                fd.params[k].type.cpp_type \o S_space \o fd.params[k].name.cpp_name]
    IN  IF cd # <<>> /\ ~fd.classmethod
        THEN join(S_comma, <<cd[1].name.cpp_name \o S_amp_self>> \o params_list)
        ELSE join(S_comma, params_list)

_generate_function_call(fd, cd) ==
    IF fd.classmethod \/ cd = <<>>
    THEN fd.name.cpp_name
    ELSE S_self_dot \o fd.name.cpp_name

\* "if not func_decl.cpp_void_return and len(func_decl.returns)"
ret0_is_assigned(fd) == ~fd.cpp_void_return /\ Len(fd.returns) # 0

\* The mutant: the start index stays 0, so ret0 is also passed by pointer.
NoStartIndex_generate_function_call_params(fd) ==
    LET params == join(S_comma,
                       [k \in 1..Len(fd.params) |-> fd.params[k].name.cpp_name])
        pointer_params_str ==
            join(S_comma,
                 [k \in 1..Len(fd.returns) |-> S_amp_ret \o str(k - 1)])
    IN  IF params # <<>> /\ pointer_params_str # <<>>
        THEN params \o S_comma \o pointer_params_str
        ELSE IF pointer_params_str # <<>> THEN pointer_params_str
        ELSE params

_generate_function_call_params(fd) ==
    LET params == join(S_comma,
                       [k \in 1..Len(fd.params) |-> fd.params[k].name.cpp_name])
        stard_idx == IF ret0_is_assigned(fd) THEN 1 ELSE 0
        pointer_params_str ==
            join(S_comma,
                 [k \in 1..(Len(fd.returns) - stard_idx) |->
                     S_amp_ret \o str(stard_idx + k - 1)])
    IN  IF params # <<>> /\ pointer_params_str # <<>>
        THEN params \o S_comma \o pointer_params_str
        ELSE IF pointer_params_str # <<>> THEN pointer_params_str
        ELSE params

\* The mutant: the directly assigned ret0 is left out of the returned values.
SkipAssigned_generate_function_call_returns(fd) ==
    LET stard_idx == IF ret0_is_assigned(fd) THEN 1 ELSE 0
    IN  join(S_comma,
             [k \in 1..(Len(fd.returns) - stard_idx) |->
                 IF fd.returns[k + stard_idx].type.lang_type = S_bytes
                 THEN S_py_bytes \o S_ret \o str(k + stard_idx - 1) \o <<")">>
                 ELSE S_ret \o str(k + stard_idx - 1)])

\* The mutant: the bytes test looks at the first return for every element.
FirstTag_generate_function_call_returns(fd) ==
    join(S_comma,
         [k \in 1..Len(fd.returns) |->
             IF fd.returns[1].type.lang_type = S_bytes
             THEN S_py_bytes \o S_ret \o str(k - 1) \o <<")">>
             ELSE S_ret \o str(k - 1)])

_generate_function_call_returns(fd) ==
    join(S_comma,
         [k \in 1..Len(fd.returns) |->
             IF fd.returns[k].type.lang_type = S_bytes
             THEN S_py_bytes \o S_ret \o str(k - 1) \o <<")">>
             ELSE S_ret \o str(k - 1)])

----------------------------------------------------------------------------
(* Descriptors *)

T_int == <<"i", "n", "t">>
T_string == <<"s", "t", "d", ":", ":", "s", "t", "r", "i", "n", "g">>
T_const_Foo_ref == <<"c", "o", "n", "s", "t", " ", "F", "o", "o", " ", "&">>
T_Foo_ptr == <<"F", "o", "o", " ", "*">>
T_Bar_ptr == <<"B", "a", "r", " ", "*">>
S_other_postproc == <<"-", ">", "o", "t", "h", "e", "r">>

SeqsUpTo(S, n) == UNION {[1..k -> S] : k \in 0..n}

Param(n, t, e, toptr, touniq, usable) ==
    [name |-> [cpp_name |-> n],
     type |-> [cpp_type |-> t,
               cpp_toptr_conversion |-> toptr,
               cpp_touniqptr_conversion |-> touniq],
     cpp_exact_type |-> e,
     usable_exact |-> usable]

ReturnDecl(t, l) == [type |-> [cpp_type |-> t, lang_type |-> l]]

ReturnDecls == {ReturnDecl(T_int, T_int), ReturnDecl(T_string, S_bytes)}

Postprocs == {<<>>, S_self_postproc, S_other_postproc}

FuncName == [native |-> <<"f", "#">>, cpp_name |-> <<"F">>]

ClassDecls == {<<>>, <<[name |-> [cpp_name |-> <<"C", "l", "s">>]]>>}

FuncDecl(ps, rs, cm, void, pp) ==
    [name |-> FuncName, params |-> ps, returns |-> rs,
     classmethod |-> cm, cpp_void_return |-> void, postproc |-> pp]

\* Parameters of the generator runs: one that converts nothing and one whose
\* exact type differs from its declared type with both conversions available.
GenParams ==
    {Param(<<"x">>, T_int, T_int, FALSE, FALSE, TRUE),
     Param(<<"p">>, T_Foo_ptr, T_Bar_ptr, TRUE, TRUE, TRUE)}

\* Parameters of the needs_lambda runs: every combination of declared type,
\* exact type, conversion flags and usability, over well-formed type strings
\* and the degenerate string "const".
NeedsTypes == {T_const_Foo_ref, T_Foo_ptr, T_Bar_ptr, S_const}

NeedsParams ==
    {Param(<<"x">>, t, e, toptr, touniq, usable) :
        t \in NeedsTypes, e \in NeedsTypes,
        toptr \in BOOLEAN, touniq \in BOOLEAN, usable \in BOOLEAN}

module_name == <<"m">>

----------------------------------------------------------------------------
(* needs_lambda followed by generate_lambda, one action per yield *)

Init ==
    /\ \E ps \in SeqsUpTo(GenParams, MaxParams),
          rs \in SeqsUpTo(ReturnDecls, MaxReturns),
          cm \in BOOLEAN, void \in BOOLEAN, pp \in Postprocs :
            func_decl = FuncDecl(ps, rs, cm, void, pp)
    /\ class_decl \in ClassDecls
    /\ pc = "start"
    /\ idx = 0
    /\ out = <<>>
    /\ ret_branch = "none"
    /\ needs = NotCalled
    /\ cpp_name = <<>>
    /\ bare = NotCalled

CallNeedsLambda ==
    /\ pc = "start"
    /\ needs' = needs_lambda(func_decl)
    /\ pc' = "generate"
    /\ UNCHANGED <<func_decl, class_decl, idx, out, ret_branch, cpp_name, bare>>

\* generate_lambda, first yield
YieldHeader ==
    /\ pc = "generate"
    /\ LET params_with_type ==
               _generate_lambda_params_with_types(func_decl, class_decl)
           func_name == rstrip_hash(func_decl.name.native)
       IN  out' = <<module_name \o <<".">> \o generate_def(func_decl)
                    \o S_open_name \o func_name \o S_open_lambda
                    \o params_with_type \o S_open_body>>
    /\ idx' = 0
    /\ pc' = "declarations"
    /\ UNCHANGED <<func_decl, class_decl, ret_branch, needs, cpp_name, bare>>

\* _generate_lambda_body: for i, r in enumerate(func_decl.returns)
YieldDeclaration ==
    /\ pc = "declarations"
    /\ idx < Len(func_decl.returns)
    /\ out' = Append(out, I \o func_decl.returns[idx + 1].type.cpp_type
                          \o S_space \o S_ret \o str(idx) \o S_braces)
    /\ idx' = idx + 1
    /\ UNCHANGED <<func_decl, class_decl, pc, ret_branch, needs, cpp_name, bare>>

\* _generate_lambda_body: the call to the wrapped function
YieldCall ==
    /\ pc = "declarations"
    /\ idx = Len(func_decl.returns)
    /\ LET function_call == _generate_function_call(func_decl, class_decl)
           function_call_params == _generate_function_call_params(func_decl)
       IN  \/ /\ ret0_is_assigned(func_decl)
              /\ out' = Append(out, I \o S_ret0_assign \o function_call
                                    \o <<"(">> \o function_call_params \o <<")", ";">>)
           \/ /\ ~ret0_is_assigned(func_decl)
              /\ out' = Append(out, I \o function_call
                                    \o <<"(">> \o function_call_params \o <<")", ";">>)
    /\ pc' = "return"
    /\ UNCHANGED <<func_decl, class_decl, idx, ret_branch, needs, cpp_name, bare>>

\* The mutant: the tuple arm is tested before the "->self" arm.
TupleFirst_YieldReturn ==
    /\ pc = "return"
    /\ LET function_call_returns == _generate_function_call_returns(func_decl)
       IN  \/ /\ Len(func_decl.returns) > 1
              /\ out' = Append(out, I \o S_return_tuple \o function_call_returns
                                    \o <<")", ";">>)
              /\ ret_branch' = "tuple"
           \/ /\ ~(Len(func_decl.returns) > 1)
              /\ func_decl.postproc = S_self_postproc
              /\ out' = Append(out, I \o S_return_self)
              /\ ret_branch' = "self"
           \/ /\ ~(Len(func_decl.returns) > 1)
              /\ func_decl.postproc # S_self_postproc
              /\ out' = Append(out, I \o S_return \o function_call_returns \o <<";">>)
              /\ ret_branch' = "single"
    /\ pc' = "close"
    /\ UNCHANGED <<func_decl, class_decl, idx, needs, cpp_name, bare>>

\* The mutant: "if" where the source has "elif", so that after "return self;"
\* the return of the values is yielded as well.
IfNotElif_YieldReturn ==
    /\ pc = "return"
    /\ LET function_call_returns == _generate_function_call_returns(func_decl)
           self_line == IF func_decl.postproc = S_self_postproc
                        THEN <<I \o S_return_self>> ELSE <<>>
       IN  \/ /\ Len(func_decl.returns) > 1
              /\ out' = out \o self_line
                        \o <<I \o S_return_tuple \o function_call_returns
                             \o <<")", ";">>>>
              /\ ret_branch' = "tuple"
           \/ /\ ~(Len(func_decl.returns) > 1)
              /\ out' = out \o self_line
                        \o <<I \o S_return \o function_call_returns \o <<";">>>>
              /\ ret_branch' = "single"
    /\ pc' = "close"
    /\ UNCHANGED <<func_decl, class_decl, idx, needs, cpp_name, bare>>

\* _generate_lambda_body: the return of the lambda expression
YieldReturn ==
    /\ pc = "return"
    /\ LET function_call_returns == _generate_function_call_returns(func_decl)
       IN  \/ /\ func_decl.postproc = S_self_postproc
              /\ out' = Append(out, I \o S_return_self)
              /\ ret_branch' = "self"
           \/ /\ func_decl.postproc # S_self_postproc
              /\ Len(func_decl.returns) > 1
              /\ out' = Append(out, I \o S_return_tuple \o function_call_returns
                                    \o <<")", ";">>)
              /\ ret_branch' = "tuple"
           \/ /\ func_decl.postproc # S_self_postproc
              /\ ~(Len(func_decl.returns) > 1)
              /\ out' = Append(out, I \o S_return \o function_call_returns \o <<";">>)
              /\ ret_branch' = "single"
    /\ pc' = "close"
    /\ UNCHANGED <<func_decl, class_decl, idx, needs, cpp_name, bare>>

\* generate_lambda, last yield
YieldClose ==
    /\ pc = "close"
    /\ out' = Append(out, S_close_body \o generate_function_suffixes(func_decl))
    /\ pc' = "done"
    /\ UNCHANGED <<func_decl, class_decl, idx, ret_branch, needs, cpp_name, bare>>

Next ==
    \/ CallNeedsLambda
    \/ YieldHeader
    \/ YieldDeclaration
    \/ YieldCall
    \/ YieldReturn
    \/ YieldClose

Spec == Init /\ [][Next]_vars

----------------------------------------------------------------------------
(* needs_lambda alone, over the full parameter combinations *)

InitNeeds ==
    /\ \E ps \in SeqsUpTo(NeedsParams, MaxParams),
          rs \in SeqsUpTo(ReturnDecls, MaxReturns),
          void \in BOOLEAN, pp \in Postprocs :
            func_decl = FuncDecl(ps, rs, FALSE, void, pp)
    /\ class_decl = <<>>
    /\ pc = "start"
    /\ idx = 0
    /\ out = <<>>
    /\ ret_branch = "none"
    /\ needs = NotCalled
    /\ cpp_name = <<>>
    /\ bare = NotCalled

NextNeeds == CallNeedsLambda

SpecNeeds == InitNeeds /\ [][NextNeeds]_vars

----------------------------------------------------------------------------
(* _extract_bare_type alone, over bounded character strings *)

S_Foo == <<"F", "o", "o">>
Pieces == {S_const, S_Foo, <<"&">>, <<"*">>, S_space}
PieceSeqs == SeqsUpTo(Pieces, MaxPieces)
TypeStrings == {Concat(ps) : ps \in PieceSeqs}

InitBare ==
    /\ cpp_name \in TypeStrings
    /\ bare = NotCalled
    /\ pc = "bare_call"
    /\ func_decl = FuncDecl(<<>>, <<>>, FALSE, FALSE, <<>>)
    /\ class_decl = <<>>
    /\ idx = 0
    /\ out = <<>>
    /\ ret_branch = "none"
    /\ needs = NotCalled

CallExtractBareType ==
    /\ pc = "bare_call"
    /\ bare' = _extract_bare_type(cpp_name)
    /\ pc' = "bare_done"
    /\ UNCHANGED <<func_decl, class_decl, idx, out, ret_branch, needs, cpp_name>>

NextBare == CallExtractBareType

SpecBare == InitBare /\ [][NextBare]_vars

----------------------------------------------------------------------------
(* Reading emitted text back: helpers of the properties below *)

RECURSIVE lstrip(_)
lstrip(s) == IF s # <<>> /\ Head(s) = " " THEN lstrip(Tail(s)) ELSE s

StartsWith(s, p) == Len(s) >= Len(p) /\ SubSeq(s, 1, Len(p)) = p
EndsWith(s, p) == Len(s) >= Len(p) /\ SubSeq(s, Len(s) - Len(p) + 1, Len(s)) = p
Contains(s, p) ==
    /\ Len(s) >= Len(p)
    /\ \E k \in 1..(Len(s) - Len(p) + 1) : SubSeq(s, k, k + Len(p) - 1) = p

\* The comma-separated elements of a text, each without leading blanks.
Elements(text) ==
    IF text = <<>> THEN <<>>
    ELSE LET pieces == SplitAt(text, ",")
         IN  [k \in 1..Len(pieces) |-> lstrip(pieces[k])]

NumReturns == Len(func_decl.returns)
HeaderLine == out[1]
DeclarationLine(i) == out[i + 2]
CallLine == out[NumReturns + 2]
ReturnLine == out[NumReturns + 3]
ClosingLine == out[NumReturns + 4]
CallEmitted == pc \in {"return", "close", "done"}
ReturnEmitted == pc \in {"close", "done"}

L_make_tuple ==
    <<"s", "t", "d", ":", ":", "m", "a", "k", "e", "_", "t", "u", "p", "l", "e", "(">>
L_return == <<"r", "e", "t", "u", "r", "n", " ">>
L_return_self == <<"r", "e", "t", "u", "r", "n", " ", "s", "e", "l", "f", ";">>
L_self == <<"s", "e", "l", "f">>
L_receiver == <<" ", "&", "s", "e", "l", "f">>
L_ret0_assign == <<"r", "e", "t", "0", " ", "=", " ">>

RetName(i) == <<"r", "e", "t">> \o str(i)
ByteWrapped(i) ==
    <<"p", "y", ":", ":", "b", "y", "t", "e", "s", "(">> \o RetName(i) \o <<")">>
PointerArg(i) == <<"&">> \o RetName(i)

\* The elements of the expression of a line "return <e>;" or
\* "return std::make_tuple(<e0>, ...);".
ReturnElements(line) ==
    LET l == lstrip(line)
        body == SubSeq(l, Len(L_return) + 1, Len(l) - 1)
        inner == IF StartsWith(body, L_make_tuple)
                 THEN SubSeq(body, Len(L_make_tuple) + 1, Len(body) - 1)
                 ELSE body
    IN  Elements(inner)

\* The arguments of a call statement "...<callee>(<args>);".
CallArguments(line) ==
    LET open == CHOOSE k \in 1..Len(line) :
                    /\ line[k] = "("
                    /\ \A j \in 1..(k - 1) : line[j] # "("
    IN  Elements(SubSeq(line, open + 1, Len(line) - 2))

IsByteSequence(r) == r.type.lang_type = S_bytes

\* Bare type as the documentation states it: tokens between white space,
\* without a leading const token and a trailing one-character marker token,
\* joined by single spaces.
Tokens(s) == SelectSeq(SplitAt(s, " "), LAMBDA w : w # <<>>)
BareTypeReference(s) ==
    LET t0 == Tokens(s)
        t1 == IF t0 # <<>> /\ Head(t0) = S_const THEN Tail(t0) ELSE t0
        t2 == IF t1 # <<>> /\ Last(t1) \in {<<"&">>, <<"*">>} THEN Front(t1) ELSE t1
    IN  join(<<" ">>, t2)

\* A string whose tokens are separated by exactly one space each.
SingleSpaced(s) == s = <<>> \/ \A k \in 1..Len(SplitAt(s, " ")) : SplitAt(s, " ")[k] # <<>>

Rule1(fd) == fd.postproc = S_self_postproc
Rule2(fd) ==
    /\ Len(fd.params) = 1
    /\ fd.params[1].usable_exact
    /\ BareTypeReference(fd.params[1].cpp_exact_type)
         # BareTypeReference(fd.params[1].type.cpp_type)
    /\ fd.params[1].type.cpp_toptr_conversion
    /\ fd.params[1].type.cpp_touniqptr_conversion
Rule3(fd) ==
    Len(fd.returns) >= 2 \/ (Len(fd.returns) = 1 /\ fd.cpp_void_return)
Rule4(fd) == \E k \in 1..Len(fd.returns) : IsByteSequence(fd.returns[k])

Returned(r, v) == r.exc = "None" /\ r.val = v

----------------------------------------------------------------------------
(* Properties *)

\* C1: for every function descriptor needs_lambda returns true exactly when
\* rule 1 (postproc is "->self"), rule 2 (one parameter, usable exact type,
\* different bare types, both conversion flags), rule 3 (two or more returns,
\* or one return of a void call) or rule 4 (a bytes return) holds.
C1_NeedsLambdaIffRules ==
    pc = "generate" =>
        Returned(needs, Rule1(func_decl) \/ Rule2(func_decl)
                        \/ Rule3(func_decl) \/ Rule4(func_decl))

\* What does hold of needs_lambda: whenever it returns at all, it returns the
\* disjunction of the four rules, and it raises only through rule 2's
\* bare-type extraction.
NeedsLambdaIffRulesWhenReturned ==
    pc = "generate" =>
        \/ Returned(needs, Rule1(func_decl) \/ Rule2(func_decl)
                           \/ Rule3(func_decl) \/ Rule4(func_decl))
        \/ /\ needs.exc = "IndexError"
           /\ ~Rule1(func_decl)
           /\ Len(func_decl.params) = 1
           /\ func_decl.params[1].usable_exact
           /\ S_const \in {func_decl.params[1].cpp_exact_type,
                           func_decl.params[1].type.cpp_type}

\* C7: on every type string made of tokens separated by single spaces,
\* _extract_bare_type returns what the documented procedure yields.
C7_BareTypeEqualsReference ==
    (pc = "bare_done" /\ SingleSpaced(cpp_name)) =>
        Returned(bare, BareTypeReference(cpp_name))

\* What does hold of _extract_bare_type on single-spaced strings: it agrees
\* with the documented procedure on every string but "const", where it raises.
BareTypeEqualsReferenceButConst ==
    (pc = "bare_done" /\ SingleSpaced(cpp_name)) =>
        IF cpp_name = S_const THEN bare.exc = "IndexError"
        ELSE Returned(bare, BareTypeReference(cpp_name))

\* C8: _extract_bare_type never fails: for every input string, degenerate
\* ones included, the call returns a string.
C8_BareTypeNeverRaises ==
    pc = "bare_done" => bare.exc = "None"

\* What does hold: the only string on which the extraction raises is "const".
BareTypeRaisesOnlyOnConst ==
    pc = "bare_done" => (bare.exc = "IndexError" <=> cpp_name = S_const)

----------------------------------------------------------------------------
(* Properties of the generated lines *)

ReturnLineCount ==
    Cardinality({k \in 1..Len(out) : StartsWith(lstrip(out[k]), L_return)})

\* C2: with postproc "->self" the lambda's return is the one line
\* "return self;", whatever the returns, cpp_void_return and class_decl are.
C2_ReturnSelfLine ==
    (ReturnEmitted /\ Rule1(func_decl)) =>
        /\ lstrip(ReturnLine) = L_return_self
        /\ ReturnLineCount = 1

C2_Witness ==
    /\ pc = "done"
    /\ Rule1(func_decl)
    /\ NumReturns >= 2
    /\ Rule4(func_decl)
    /\ class_decl = <<>>
    /\ lstrip(ReturnLine) = L_return_self

DeclarationsOk ==
    /\ Cardinality({k \in 1..Len(out) : EndsWith(out[k], <<"{", "}", ";">>)})
         = NumReturns
    /\ \A i \in 0..(NumReturns - 1) :
          lstrip(DeclarationLine(i))
            = func_decl.returns[i + 1].type.cpp_type \o <<" ">> \o RetName(i)
              \o <<"{", "}", ";">>

ReturnElementsOk ==
    LET e == ReturnElements(ReturnLine)
    IN  /\ Len(e) = NumReturns
        /\ \A i \in 0..(NumReturns - 1) : Contains(e[i + 1], RetName(i))

\* C3 as stated: with N >= 2 returns the lambda has exactly N declaration
\* lines "<type> ret<i>{};" in order, and its return line has exactly N
\* comma-separated elements, element i referring to ret<i>.
C3_DeclarationsAndElements ==
    (pc = "done" /\ NumReturns >= 2) => (DeclarationsOk /\ ReturnElementsOk)

\* C3 as amended: with N >= 2 returns the lambda has exactly N declaration
\* lines in order; its return line has exactly N comma-separated elements,
\* element i referring to ret<i>, unless postproc is "->self", when the
\* return line is "return self;".
C3_DeclarationsAndElementsUnlessSelf ==
    (pc = "done" /\ NumReturns >= 2) =>
        /\ DeclarationsOk
        /\ IF Rule1(func_decl) THEN lstrip(ReturnLine) = L_return_self
           ELSE ReturnElementsOk

C3_Witness ==
    /\ pc = "done"
    /\ NumReturns = 3
    /\ ~Rule1(func_decl)
    /\ ~func_decl.cpp_void_return
    /\ Len(ReturnElements(ReturnLine)) = 3

StartIndex == IF ~func_decl.cpp_void_return /\ NumReturns >= 1 THEN 1 ELSE 0

\* C4: the call statement passes the parameters' names in order followed by
\* exactly &ret<i> for i in [k, N), where k = 1 when the call is non-void
\* and N >= 1 and k = 0 otherwise, and it has the form "ret0 = ..." exactly
\* when k = 1.
C4_CallArgumentsAndAssignment ==
    CallEmitted =>
        /\ CallArguments(CallLine)
             = [j \in 1..Len(func_decl.params) |-> func_decl.params[j].name.cpp_name]
               \o [j \in 1..(NumReturns - StartIndex) |-> PointerArg(StartIndex + j - 1)]
        /\ StartsWith(lstrip(CallLine), L_ret0_assign) <=> StartIndex = 1

C4_Witness ==
    /\ pc = "done"
    /\ NumReturns = 1
    /\ func_decl.cpp_void_return
    /\ Len(func_decl.params) = 1
    /\ CallArguments(CallLine) = <<func_decl.params[1].name.cpp_name, PointerArg(0)>>
    /\ ~StartsWith(lstrip(CallLine), L_ret0_assign)

ElementsRendered ==
    LET e == ReturnElements(ReturnLine)
    IN  \A i \in 0..(NumReturns - 1) :
           /\ i < Len(e)
           /\ e[i + 1] = IF IsByteSequence(func_decl.returns[i + 1])
                         THEN ByteWrapped(i) ELSE RetName(i)

\* C5 as stated: in the return expression of the lambda every bytes return
\* appears as py::bytes(ret<i>) and every other return as bare ret<i>.
C5_BytesWrapped ==
    ReturnEmitted => ElementsRendered

\* C5 as amended: the same, unless postproc is "->self" (the return
\* expression is then "self" and holds no return at all).
C5_BytesWrappedUnlessSelf ==
    (ReturnEmitted /\ ~Rule1(func_decl)) => ElementsRendered

C5_Witness ==
    /\ pc = "done"
    /\ ~Rule1(func_decl)
    /\ NumReturns = 2
    /\ ~IsByteSequence(func_decl.returns[1])
    /\ IsByteSequence(func_decl.returns[2])
    /\ ReturnElements(ReturnLine) = <<RetName(0), ByteWrapped(1)>>

Kind(line) ==
    IF StartsWith(line, module_name \o <<".">>) /\ EndsWith(line, <<")", " ", "{">>)
    THEN "header"
    ELSE IF EndsWith(line, <<"{", "}", ";">>) THEN "declaration"
    ELSE IF StartsWith(lstrip(line), L_return) THEN "return"
    ELSE IF StartsWith(line, <<"}">>) THEN "closing"
    ELSE IF EndsWith(line, <<")", ";">>) THEN "call"
    ELSE "unknown"

ExpectedKinds ==
    <<"header">> \o [i \in 1..NumReturns |-> "declaration"]
    \o <<"call", "return", "closing">>

ExpectedLength ==
    CASE pc \in {"start", "generate"} -> 0
      [] pc = "declarations" -> 1 + idx
      [] pc = "return" -> NumReturns + 2
      [] pc = "close" -> NumReturns + 3
      [] pc = "done" -> NumReturns + 4

\* C6: the lines come in one fixed order without repetition: the header,
\* one declaration per return in order, the call statement, the return line
\* and the closing line with the suffix; the finished output has
\* len(returns) + 4 lines.
C6_LinearEmission ==
    /\ Len(out) = ExpectedLength
    /\ \A k \in 1..Len(out) : Kind(out[k]) = ExpectedKinds[k]
    /\ \A i \in 0..(NumReturns - 1) :
          (i + 2 <= Len(out)) => Contains(DeclarationLine(i), RetName(i) \o <<"{">>)
    /\ pc = "done" =>
          /\ Len(out) = NumReturns + 4
          /\ ClosingLine = <<"}", ",", " ">> \o generate_function_suffixes(func_decl)

C6_Witness ==
    /\ pc = "done"
    /\ NumReturns = 2
    /\ Len(out) = 6
    /\ class_decl # <<>>
    /\ Rule1(func_decl)

\* C9 as stated: when needs_lambda is true and the return line comes from
\* the final "return <e0>;" arm, rule 2 or rule 1 holds.
C9_SingleArmOnlyForConversionOrSelf ==
    (ReturnEmitted /\ Returned(needs, TRUE) /\ ret_branch = "single") =>
        (Rule2(func_decl) \/ Rule1(func_decl))

\* C9 as amended: when needs_lambda is true and the return line comes from
\* the final "return <e0>;" arm, rule 1 does not hold, and rule 2 holds or
\* there is exactly one return, which is the out-parameter of a void call
\* (rule 3) or a bytes return (rule 4).
C9_SingleArmReasons ==
    (ReturnEmitted /\ Returned(needs, TRUE) /\ ret_branch = "single") =>
        /\ ~Rule1(func_decl)
        /\ \/ Rule2(func_decl)
           \/ /\ NumReturns = 1
              /\ \/ func_decl.cpp_void_return
                 \/ IsByteSequence(func_decl.returns[1])

C9_Witness ==
    /\ pc = "done"
    /\ Returned(needs, TRUE)
    /\ ret_branch = "single"
    /\ Rule2(func_decl)
    /\ NumReturns = 0
    /\ lstrip(ReturnLine) = <<"r", "e", "t", "u", "r", "n", " ", ";">>

BodyRefersToSelf ==
    \E k \in 2..(NumReturns + 3) : Contains(out[k], L_self)

\* C10: a body line of the lambda refers to self only if the header's
\* parameter list declares the receiver "<class> &self".
C10_SelfOnlyWithReceiver ==
    pc = "done" => (BodyRefersToSelf => Contains(HeaderLine, L_receiver))

\* What does hold: the call expression refers to self exactly when the
\* header declares the receiver, which is exactly when a class_decl is given
\* and the function is no classmethod.
CallRefersToSelfIffReceiver ==
    pc = "done" =>
        /\ Contains(CallLine, L_self) <=> Contains(HeaderLine, L_receiver)
        /\ Contains(HeaderLine, L_receiver)
             <=> (class_decl # <<>> /\ ~func_decl.classmethod)

====
